---- MODULE Spec2Model ----
(***************************************************************************)
(* Python2SOMIX (src/src/python2mse.py): the two-phase extractor.          *)
(*                                                                         *)
(* Phase 1, DefinitionCollector, walks every parsed file and fills the     *)
(* symbol table, the entity dictionary and the parent-child list.          *)
(* Phase 2, the driver loop of main, runs UsageAnalyzer over every file,   *)
(* applies the proposed parameter types and repeats while something        *)
(* changed, at most max_iterations times.  Then ids are assigned, the      *)
(* relations are mapped to ids and the .mse file is written.               *)
(*                                                                         *)
(* Conventions of the model                                                *)
(*   - a dotted Python string 'a.K.m' is the sequence <<"a","K","m">> of   *)
(*     its parts, so that  x + '.' + y  is  x \o y,  split('.') is the     *)
(*     sequence itself and '.'.join([]) is the one empty part <<"">>;      *)
(*   - Python's None is the empty sequence for names and types, 0 for ids; *)
(*   - a dict whose order matters (elements, Code.parameters) is a         *)
(*     sequence of entries, every other dict is a function;                *)
(*   - Element objects live in the heap objs; symbol_table and elements    *)
(*     hold references (indices into objs), as in Python;                  *)
(*   - an exception raised inside a visitor sets err and is caught by the  *)
(*     try/except around the file in main: the rest of the file is skipped *)
(*     and what was already appended to the shared lists stays.            *)
(***************************************************************************)
EXTENDS Integers, Sequences, FiniteSets, TLC

None == <<>>

\* a + '.' + b on dotted strings
Dot(a, b) == a \o b

\* dict.get(k) with default None (given as dflt)
Get(d, k, dflt) == IF k \in DOMAIN d THEN d[k] ELSE dflt

\* d[k] = v on an unordered dict
Put(d, k, v) == [x \in (DOMAIN d) \cup {k} |-> IF x = k THEN v ELSE d[x]]

EmptyDict == [x \in {} |-> None]

(***************************************************************************)
(* Syntax trees (the ast nodes the visitors distinguish).                  *)
(***************************************************************************)
Name(id) == [t |-> "Name", id |-> id]
Attribute(value, attr) == [t |-> "Attribute", value |-> value, attr |-> attr]
Call(func, args) == [t |-> "Call", func |-> func, args |-> args]
Constant == [t |-> "Constant"]

\* assignment targets carry the column the editor link is computed from
NameTarget(id, col) == [t |-> "Name", id |-> id, col_offset |-> col]
AttributeTarget(value, attr, col) ==
    [t |-> "Attribute", value |-> value, attr |-> attr, col_offset |-> col]

alias(name, asname) == [name |-> name, asname |-> asname]
Import(names) == [t |-> "Import", names |-> names]
ImportFrom(module, names) == [t |-> "ImportFrom", module |-> module, names |-> names]
ClassDef(name, body) == [t |-> "ClassDef", name |-> name, body |-> body]
FunctionDef(name, args, body) ==
    [t |-> "FunctionDef", name |-> name, args |-> args, body |-> body]
Assign(targets, value, lineno) ==
    [t |-> "Assign", targets |-> targets, value |-> value, lineno |-> lineno]
\* Expr, Return, AugAssign, Pass: no visitor of their own, children in field order
Stmt(children) == [t |-> "Stmt", children |-> children]

\* a .py file below base_path: basename, relative path without '.py' split at
\* os.sep, whether ast.parse succeeds, and the body of the Module node
SourceFile(name, relpath, parses, body) ==
    [name |-> name, relpath |-> relpath, parses |-> parses,
     body |-> IF parses THEN body ELSE <<>>]


\* module_name = os.path.relpath(filepath, base_path).replace(os.sep, '.')[:-3]
module_name_of(file) == file.relpath

(***************************************************************************)
(* Model entities.  kind is the Python class of the object.                *)
(***************************************************************************)
Element(kind, name, unique_name, technical_type, link_to_editor) ==
    [kind |-> kind, id |-> 0, name |-> name, unique_name |-> unique_name,
     technical_type |-> technical_type, link_to_editor |-> link_to_editor,
     parameters |-> <<>>, is_main |-> FALSE]

Grouping(name, unique_name, technical_type, link_to_editor) ==
    Element("Grouping", name, unique_name, technical_type, link_to_editor)

Code(name, unique_name, technical_type, link_to_editor) ==
    Element("Code", name, unique_name, technical_type, link_to_editor)

Data(name, unique_name, technical_type, link_to_editor) ==
    Element("Data", name, unique_name, technical_type, link_to_editor)

\* mutant of ElementsPut: elements is a list, every definition appends an entry
ElementsPut_Append(elements, key, ref) == Append(elements, [key |-> key, ref |-> ref])

\* the ordered dict elements: elements[key] = ref keeps the place of a key
\* that is already there and appends a new key
ElementsPut(elements, key, ref) ==
    IF \E i \in 1..Len(elements) : elements[i].key = key
    THEN [i \in 1..Len(elements) |->
            IF elements[i].key = key THEN [key |-> key, ref |-> ref] ELSE elements[i]]
    ELSE Append(elements, [key |-> key, ref |-> ref])

\* a dict from parameter name to type, in insertion order: d.get(name)
ParametersGet(params, name) ==
    IF \E i \in 1..Len(params) : params[i].name = name
    THEN params[CHOOSE i \in 1..Len(params) : params[i].name = name].type
    ELSE None

\* mutant of ParametersPut: the entry is appended even when the name has one
ParametersPut_Append(params, name, type) == Append(params, [name |-> name, type |-> type])

\* d[name] = type
ParametersPut(params, name, type) ==
    IF \E i \in 1..Len(params) : params[i].name = name
    THEN [i \in 1..Len(params) |->
            IF params[i].name = name THEN [name |-> name, type |-> type] ELSE params[i]]
    ELSE Append(params, [name |-> name, type |-> type])

\* {arg.arg: None for arg in node.args.args}
InitialParameters(args) == [i \in 1..Len(args) |-> [name |-> args[i], type |-> None]]

(***************************************************************************)
(* DefinitionCollector.  dc is the collector object together with the      *)
(* shared symbol_table, elements and parent_child_relations it writes.     *)
(***************************************************************************)
DefinitionCollector(objs, symbol_table, elements, parent_child_relations) ==
    [objs |-> objs, symbol_table |-> symbol_table, elements |-> elements,
     parent_child_relations |-> parent_child_relations,
     current_class |-> None, current_function |-> None,
     local_namespace |-> EmptyDict, err |-> FALSE]

\* vscode://file/{filepath}/:{lineno}:{col_offset + 1}
get_link(file, lineno, col_offset) == <<file.relpath, lineno, col_offset + 1>>

\* mutant of ParentChild: every record is a main one
ParentChild_AlwaysMain(parent, child, isMain) ==
    [parent |-> parent, child |-> child, isMain |-> TRUE]

ParentChild(parent, child, isMain) == [parent |-> parent, child |-> child, isMain |-> isMain]

\* symbol_table[u] = e; elements[u] = e; parent_child_relations.append(rel)
DC_define(dc, elem, in_symbol_table, rel) ==
    LET ref == Len(dc.objs) + 1 IN
    [dc EXCEPT !.objs = Append(@, elem),
               !.symbol_table = IF in_symbol_table THEN Put(@, elem.unique_name, ref) ELSE @,
               !.elements = ElementsPut(@, elem.unique_name, ref),
               !.parent_child_relations = Append(@, rel)]

DC_visit_Import(node, dc) ==
    LET bind(ns, a) == Put(ns, IF a.asname # None THEN a.asname ELSE a.name, a.name)
        RECURSIVE all(_, _)
        all(ns, i) == IF i > Len(node.names) THEN ns ELSE all(bind(ns, node.names[i]), i + 1)
    IN [dc EXCEPT !.local_namespace = all(@, 1)]

DC_visit_ImportFrom(node, dc) ==
    LET full_name(a) == IF node.module # None THEN Dot(node.module, a.name) ELSE a.name
        bind(ns, a) == Put(ns, IF a.asname # None THEN a.asname ELSE a.name, full_name(a))
        RECURSIVE all(_, _)
        all(ns, i) == IF i > Len(node.names) THEN ns ELSE all(bind(ns, node.names[i]), i + 1)
    IN [dc EXCEPT !.local_namespace = all(@, 1)]

\* one target of visit_Assign
DC_assign_target(target, node, dc, file) ==
    LET module_name == module_name_of(file)
        parent == IF dc.current_class # None THEN dc.current_class ELSE module_name
    IN
    IF target.t = "Name" THEN
        LET unique_name ==
                IF dc.current_function # None THEN Dot(dc.current_function, <<target.id>>)
                ELSE IF dc.current_class # None THEN Dot(dc.current_class, <<target.id>>)
                ELSE Dot(module_name, <<target.id>>)
            data_element == Data(target.id, unique_name, "PythonVariable",
                                 get_link(file, node.lineno, target.col_offset))
        IN DC_define(dc, data_element, dc.current_function = None,
                     ParentChild(parent, unique_name, TRUE))
    ELSE IF target.t = "Attribute" /\ target.value.t = "Name" /\ target.value.id = "self" THEN
        IF dc.current_class = None
        THEN [dc EXCEPT !.err = TRUE]   \* None + '.' + name: TypeError
        ELSE
        LET unique_name == Dot(dc.current_class, <<target.attr>>)
            data_element == Data(target.attr, unique_name, "PythonVariable",
                                 get_link(file, node.lineno, target.col_offset))
        IN DC_define(dc, data_element, TRUE,
                     ParentChild(dc.current_class, unique_name, TRUE))
    ELSE dc

RECURSIVE DC_assign_targets(_, _, _, _)
DC_assign_targets(targets, node, dc, file) ==
    IF targets = <<>> \/ dc.err THEN dc
    ELSE DC_assign_targets(Tail(targets), node,
                           DC_assign_target(Head(targets), node, dc, file), file)

\* generic_visit(node) finds no definition inside the expressions of an Assign
DC_visit_Assign(node, dc, file) == DC_assign_targets(node.targets, node, dc, file)

RECURSIVE DC_visit(_, _, _)
RECURSIVE DC_generic_visit(_, _, _)

DC_visit_ClassDef(node, dc, file) ==
    LET unique_name == Dot(module_name_of(file), <<node.name>>)
        grouping == Grouping(node.name, unique_name, "class", None)
        d1 == DC_define(dc, grouping, TRUE,
                        ParentChild(module_name_of(file), unique_name, FALSE))
        d2 == DC_generic_visit(node.body, [d1 EXCEPT !.current_class = unique_name], file)
    IN IF d2.err THEN d2 ELSE [d2 EXCEPT !.current_class = None]

DC_visit_FunctionDef(node, dc, file) ==
    LET in_class == dc.current_class # None
        unique_name == IF in_class THEN Dot(dc.current_class, <<node.name>>)
                       ELSE Dot(module_name_of(file), <<node.name>>)
        code == [Code(node.name, unique_name, IF in_class THEN "method" ELSE "function", None)
                   EXCEPT !.parameters = InitialParameters(node.args)]
        parent == IF in_class THEN dc.current_class ELSE module_name_of(file)
        d1 == DC_define(dc, code, TRUE, ParentChild(parent, unique_name, FALSE))
        d2 == DC_generic_visit(node.body, [d1 EXCEPT !.current_function = unique_name], file)
    IN IF d2.err THEN d2 ELSE [d2 EXCEPT !.current_function = None]

DC_visit(node, dc, file) ==
    CASE node.t = "Import" -> DC_visit_Import(node, dc)
      [] node.t = "ImportFrom" -> DC_visit_ImportFrom(node, dc)
      [] node.t = "ClassDef" -> DC_visit_ClassDef(node, dc, file)
      [] node.t = "FunctionDef" -> DC_visit_FunctionDef(node, dc, file)
      [] node.t = "Assign" -> DC_visit_Assign(node, dc, file)
      [] OTHER -> dc

\* the statements of a body in order; an exception ends the walk
DC_generic_visit(body, dc, file) ==
    IF body = <<>> \/ dc.err THEN dc
    ELSE DC_generic_visit(Tail(body), DC_visit(Head(body), dc, file), file)

DC_visit_Module(file, dc) ==
    LET unique_name == module_name_of(file)
        module_element == [Grouping(file.name, unique_name, "PythonFile", get_link(file, 1, 0))
                             EXCEPT !.is_main = TRUE]
        d1 == DC_define(dc, module_element, TRUE, ParentChild(None, unique_name, TRUE))
    IN DC_generic_visit(file.body,
                        [d1 EXCEPT !.current_class = None, !.current_function = None], file)

(***************************************************************************)
(* UsageAnalyzer.  ua is the analyzer object together with the shared      *)
(* calls, accesses and param_type_assignments it writes; objs and          *)
(* symbol_table are only read in phase 2, except for Code.parameters,      *)
(* which the driver writes between passes.                                 *)
(***************************************************************************)
UsageAnalyzer(calls, accesses, param_type_assignments) ==
    [current_class |-> None, current_function |-> None,
     local_namespace |-> EmptyDict, variable_types |-> EmptyDict,
     class_variable_types |-> EmptyDict,
     calls |-> calls, accesses |-> accesses,
     param_type_assignments |-> param_type_assignments, err |-> FALSE]

NoElement == Element("None", "", None, "", None)

\* symbol_table.get(unique_name)
Lookup(objs, symbol_table, unique_name) ==
    IF unique_name \in DOMAIN symbol_table THEN objs[symbol_table[unique_name]] ELSE NoElement

built_in_functions ==
    {<<"print">>, <<"len">>, <<"range">>, <<"str">>, <<"int">>, <<"float">>,
     <<"list">>, <<"dict">>, <<"set">>, <<"tuple">>, <<"open">>}

CallRecord(caller, called) == [caller |-> caller, called |-> called]

\* mutant of AccessRecord: the access is recorded as a write
AccessRecord_Write(accessor, accessed) ==
    [accessor |-> accessor, accessed |-> accessed,
     isWrite |-> TRUE, isRead |-> FALSE, isDependent |-> TRUE]

AccessRecord(accessor, accessed) ==
    [accessor |-> accessor, accessed |-> accessed,
     isWrite |-> FALSE, isRead |-> TRUE, isDependent |-> TRUE]

\* the dotted name of a callee expression, None when the chain does not end in a Name
RECURSIVE get_called_name(_)
get_called_name(node) ==
    CASE node.t = "Name" -> <<node.id>>
      [] node.t = "Attribute" ->
            LET RECURSIVE chain(_)
                chain(n) == IF n.t = "Attribute"
                            THEN LET r == chain(n.value)
                                 IN IF r = None THEN None ELSE Append(r, n.attr)
                            ELSE IF n.t = "Name" THEN <<n.id>> ELSE None
            IN chain(node)
      [] node.t = "Call" -> get_called_name(node.func)
      [] OTHER -> None

\* '.'.join(parts)
Join(parts) == IF parts = <<>> THEN <<"">> ELSE parts

\* [err, elem]: err is the exception resolve_called_name raises
resolve_called_name(called_name, ua, objs, symbol_table, file) ==
    IF called_name = None THEN [err |-> TRUE, elem |-> NoElement]  \* '.' in None: TypeError
    ELSE
    LET dotted == Len(called_name) > 1
        base == called_name[1]
        attrs == Tail(called_name)
        self_type == Get(ua.class_variable_types, <<"self", attrs[1]>>, None)
        var_type == LET v == Get(ua.variable_types, <<base>>, None)
                    IN IF v # None THEN v ELSE Get(ua.class_variable_types, <<base>>, None)
        base_unique_name == IF <<base>> \in DOMAIN ua.local_namespace
                            THEN ua.local_namespace[<<base>>]
                            ELSE Dot(module_name_of(file), <<base>>)
        called_unique_name ==
            IF dotted THEN
                IF base = "self" THEN Dot(self_type, Join(Tail(attrs)))
                ELSE IF var_type # None THEN Dot(var_type, Join(attrs))
                ELSE Dot(base_unique_name, Join(attrs))
            ELSE IF called_name \in DOMAIN ua.local_namespace
                 THEN ua.local_namespace[called_name]
                 ELSE Dot(module_name_of(file), called_name)
        called_element == Lookup(objs, symbol_table, called_unique_name)
        method_element ==
            Lookup(objs, symbol_table, Dot(called_element.unique_name, <<attrs[Len(attrs)]>>))
    IN
    IF dotted /\ base = "self" /\ self_type = None THEN [err |-> FALSE, elem |-> NoElement]
    ELSE IF called_element.kind = "Code" THEN [err |-> FALSE, elem |-> called_element]
    ELSE IF called_element.kind = "Grouping" THEN
        IF ~dotted THEN [err |-> TRUE, elem |-> NoElement]  \* attrs is unbound: UnboundLocalError
        ELSE IF method_element.kind = "Code" THEN [err |-> FALSE, elem |-> method_element]
        ELSE [err |-> FALSE, elem |-> NoElement]
    ELSE [err |-> FALSE, elem |-> NoElement]

resolve_class_name(class_name, ua, objs, symbol_table, file) ==
    LET direct == Lookup(objs, symbol_table, class_name)
        imported == Lookup(objs, symbol_table, Get(ua.local_namespace, class_name, None))
        local == Lookup(objs, symbol_table, Dot(module_name_of(file), class_name))
    IN
    IF class_name = None THEN NoElement
    ELSE IF direct.kind = "Grouping" THEN direct
    ELSE IF class_name \in DOMAIN ua.local_namespace /\ imported.kind = "Grouping" THEN imported
    ELSE IF local.kind = "Grouping" THEN local
    ELSE NoElement

\* [type, ua]: the inferred type and the analyzer after the __init__ call was recorded
infer_type(value, ua, objs, symbol_table, file) ==
    IF value.t = "Call" THEN
        LET class_element ==
                resolve_class_name(get_called_name(value.func), ua, objs, symbol_table, file)
            full_class_name == class_element.unique_name
            init_method == Lookup(objs, symbol_table, Dot(full_class_name, <<"__init__">>))
        IN IF class_element.kind = "None" THEN [type |-> None, ua |-> ua]
           ELSE [type |-> full_class_name,
                 ua |-> IF init_method.kind = "Code"
                        THEN [ua EXCEPT !.calls =
                                Append(@, CallRecord(ua.current_function, init_method.unique_name))]
                        ELSE ua]
    ELSE IF value.t = "Name" THEN
        [type |-> IF <<value.id>> \in DOMAIN ua.variable_types
                  THEN ua.variable_types[<<value.id>>]
                  ELSE Get(ua.class_variable_types, <<value.id>>, None),
         ua |-> ua]
    ELSE [type |-> None, ua |-> ua]

infer_argument_type(arg, ua, objs, symbol_table, file) ==
    IF arg.t = "Name" THEN
        LET var_type == Get(ua.variable_types, <<arg.id>>, None)
        IN [type |-> IF var_type # None THEN var_type
                     ELSE Get(ua.class_variable_types, <<arg.id>>, None),
            ua |-> ua]
    ELSE IF arg.t = "Call" THEN infer_type(arg, ua, objs, symbol_table, file)
    ELSE IF arg.t = "Attribute" /\ arg.value.t = "Name" /\ arg.value.id = "self" THEN
        [type |-> Get(ua.class_variable_types, <<"self", arg.attr>>, None), ua |-> ua]
    ELSE [type |-> None, ua |-> ua]

RECURSIVE UA_visit(_, _, _, _, _)
RECURSIVE UA_visit_all(_, _, _, _, _)

\* the nodes of a list in order; an exception ends the walk
UA_visit_all(nodes, ua, objs, symbol_table, file) ==
    IF nodes = <<>> \/ ua.err THEN ua
    ELSE UA_visit_all(Tail(nodes), UA_visit(Head(nodes), ua, objs, symbol_table, file),
                      objs, symbol_table, file)

UA_visit_Import(node, ua) ==
    LET bind(ns, a) == Put(ns, IF a.asname # None THEN a.asname ELSE a.name, a.name)
        RECURSIVE all(_, _)
        all(ns, i) == IF i > Len(node.names) THEN ns ELSE all(bind(ns, node.names[i]), i + 1)
    IN [ua EXCEPT !.local_namespace = all(@, 1)]

UA_visit_ImportFrom(node, ua) ==
    LET full_name(a) == IF node.module # None THEN Dot(node.module, a.name) ELSE a.name
        bind(ns, a) == Put(ns, IF a.asname # None THEN a.asname ELSE a.name, full_name(a))
        RECURSIVE all(_, _)
        all(ns, i) == IF i > Len(node.names) THEN ns ELSE all(bind(ns, node.names[i]), i + 1)
    IN [ua EXCEPT !.local_namespace = all(@, 1)]

UA_visit_ClassDef(node, ua, objs, symbol_table, file) ==
    LET unique_name == Dot(module_name_of(file), <<node.name>>)
        u1 == [ua EXCEPT !.current_class = unique_name, !.class_variable_types = EmptyDict]
        u2 == UA_visit_all(node.body, u1, objs, symbol_table, file)
    IN IF u2.err THEN u2 ELSE [u2 EXCEPT !.current_class = None]

\* variable_types[param_name] = param_type for the parameters of the Code
SeedVariableTypes(code_element) ==
    LET ps == code_element.parameters IN
    IF code_element.kind = "Code"
    THEN [k \in {<<ps[i].name>> : i \in 1..Len(ps)} |->
            ps[CHOOSE i \in 1..Len(ps) : <<ps[i].name>> = k].type]
    ELSE EmptyDict

\* mutant of UA_visit_FunctionDef: the body also sees the types proposed for its
\* parameters in the running pass
UA_visit_FunctionDef_SeesProposals(node, ua, objs, symbol_table, file) ==
    LET unique_name == IF ua.current_class # None THEN Dot(ua.current_class, <<node.name>>)
                       ELSE Dot(module_name_of(file), <<node.name>>)
        code_element == Lookup(objs, symbol_table, unique_name)
        proposed == Get(ua.param_type_assignments, unique_name, <<>>)
        ps == code_element.parameters
        seen == IF code_element.kind = "Code"
                THEN [code_element EXCEPT !.parameters =
                        [i \in 1..Len(ps) |->
                            IF ParametersGet(proposed, ps[i].name) # None
                            THEN [ps[i] EXCEPT !.type = ParametersGet(proposed, ps[i].name)]
                            ELSE ps[i]]]
                ELSE code_element
        u1 == [ua EXCEPT !.current_function = unique_name,
                         !.variable_types = SeedVariableTypes(seen)]
        u2 == UA_visit_all(node.body, u1, objs, symbol_table, file)
        selfs == {k \in DOMAIN u2.variable_types : Len(k) >= 2 /\ k[1] = "self"}
        merged == [k \in (DOMAIN u2.class_variable_types) \cup selfs |->
                     IF k \in selfs THEN u2.variable_types[k] ELSE u2.class_variable_types[k]]
    IN IF u2.err THEN u2
       ELSE [u2 EXCEPT !.class_variable_types = merged, !.variable_types = EmptyDict,
                       !.current_function = None]

UA_visit_FunctionDef(node, ua, objs, symbol_table, file) ==
    LET unique_name == IF ua.current_class # None THEN Dot(ua.current_class, <<node.name>>)
                       ELSE Dot(module_name_of(file), <<node.name>>)
        code_element == Lookup(objs, symbol_table, unique_name)
        u1 == [ua EXCEPT !.current_function = unique_name,
                         !.variable_types = SeedVariableTypes(code_element)]
        u2 == UA_visit_all(node.body, u1, objs, symbol_table, file)
        \* entries of variable_types spelled self.x are merged into the class map
        selfs == {k \in DOMAIN u2.variable_types : Len(k) >= 2 /\ k[1] = "self"}
        merged == [k \in (DOMAIN u2.class_variable_types) \cup selfs |->
                     IF k \in selfs THEN u2.variable_types[k] ELSE u2.class_variable_types[k]]
    IN IF u2.err THEN u2
       ELSE [u2 EXCEPT !.class_variable_types = merged, !.variable_types = EmptyDict,
                       !.current_function = None]

\* one target of visit_Assign
UA_assign_target(target, node, ua, objs, symbol_table, file) ==
    LET it == infer_type(node.value, ua, objs, symbol_table, file) IN
    IF target.t = "Name" THEN
        IF it.type # None THEN [it.ua EXCEPT !.variable_types = Put(@, <<target.id>>, it.type)]
        ELSE it.ua
    ELSE IF target.t = "Attribute" /\ target.value.t = "Name" /\ target.value.id = "self" THEN
        IF it.type # None
        THEN [it.ua EXCEPT !.class_variable_types = Put(@, <<"self", target.attr>>, it.type)]
        ELSE it.ua
    ELSE ua

RECURSIVE UA_assign_targets(_, _, _, _, _, _)
UA_assign_targets(targets, node, ua, objs, symbol_table, file) ==
    IF targets = <<>> THEN ua
    ELSE UA_assign_targets(Tail(targets), node,
            UA_assign_target(Head(targets), node, ua, objs, symbol_table, file),
            objs, symbol_table, file)

UA_visit_Assign(node, ua, objs, symbol_table, file) ==
    LET u1 == IF ua.current_function # None
              THEN UA_assign_targets(node.targets, node, ua, objs, symbol_table, file)
              ELSE ua
    IN UA_visit_all(node.targets \o <<node.value>>, u1, objs, symbol_table, file)

\* mutant of UA_assign_parameter_types: the test 'arg_type and' is missing, so that an
\* argument of unknown type overwrites the recorded type with None
RECURSIVE UA_assign_parameter_types_Unguarded(_, _, _, _, _, _, _)
UA_assign_parameter_types_Unguarded(i, args, called_element, ua, objs, symbol_table, file) ==
    IF i > Len(args) \/ i > Len(called_element.parameters) \/ ua.err THEN ua
    ELSE
    LET param_name == called_element.parameters[i].name
        it == infer_argument_type(args[i], ua, objs, symbol_table, file)
        callee == called_element.unique_name
        pta == it.ua.param_type_assignments
        u1 == IF callee \notin DOMAIN pta THEN [it.ua EXCEPT !.err = TRUE]
              ELSE IF ParametersGet(pta[callee], param_name) # it.type
              THEN [it.ua EXCEPT !.param_type_assignments[callee] =
                                     ParametersPut(@, param_name, it.type)]
              ELSE it.ua
    IN UA_assign_parameter_types_Unguarded(i + 1, args, called_element, u1,
                                           objs, symbol_table, file)

\* param_type_assignments[callee][param_name] = arg_type for the positional arguments
RECURSIVE UA_assign_parameter_types(_, _, _, _, _, _, _)
UA_assign_parameter_types(i, args, called_element, ua, objs, symbol_table, file) ==
    IF i > Len(args) \/ i > Len(called_element.parameters) \/ ua.err THEN ua
    ELSE
    LET param_name == called_element.parameters[i].name
        it == infer_argument_type(args[i], ua, objs, symbol_table, file)
        callee == called_element.unique_name
        pta == it.ua.param_type_assignments
        u1 == IF it.type = None THEN it.ua
              ELSE IF callee \notin DOMAIN pta THEN [it.ua EXCEPT !.err = TRUE]  \* KeyError
              ELSE IF ParametersGet(pta[callee], param_name) # it.type
              THEN [it.ua EXCEPT !.param_type_assignments[callee] =
                                     ParametersPut(@, param_name, it.type)]
              ELSE it.ua
    IN UA_assign_parameter_types(i + 1, args, called_element, u1, objs, symbol_table, file)

UA_visit_Call(node, ua, objs, symbol_table, file) ==
    LET called_name == get_called_name(node.func)
        children == <<node.func>> \o node.args
        r == resolve_called_name(called_name, ua, objs, symbol_table, file)
        u1 == IF ua.current_function # None
              THEN [ua EXCEPT !.calls = Append(@, CallRecord(ua.current_function,
                                                             r.elem.unique_name))]
              ELSE ua
        u2 == UA_assign_parameter_types(1, node.args, r.elem, u1, objs, symbol_table, file)
    IN
    IF called_name \in built_in_functions
    THEN UA_visit_all(children, ua, objs, symbol_table, file)
    ELSE IF r.err THEN [ua EXCEPT !.err = TRUE]
    ELSE IF r.elem.kind = "Code" THEN UA_visit_all(children, u2, objs, symbol_table, file)
    ELSE UA_visit_all(children, ua, objs, symbol_table, file)

UA_visit_Attribute(node, ua, objs, symbol_table, file) ==
    LET is_name == node.value.t = "Name"
        var_name == node.value.id
        own == Lookup(objs, symbol_table, Dot(ua.current_class, <<node.attr>>))
        var_type == LET v == Get(ua.variable_types, <<var_name>>, None)
                    IN IF v # None THEN v ELSE Get(ua.class_variable_types, <<var_name>>, None)
        typed == Lookup(objs, symbol_table, Dot(var_type, <<node.attr>>))
        record(data_element) ==
            [ua EXCEPT !.accesses = Append(@, AccessRecord(ua.current_function,
                                                           data_element.unique_name))]
        u1 == IF ua.current_function = None \/ ~is_name THEN ua
              ELSE IF var_name = "self" THEN
                  IF ua.current_class = None THEN [ua EXCEPT !.err = TRUE]  \* TypeError
                  ELSE IF own.kind = "Data" THEN record(own) ELSE ua
              ELSE IF var_type # None /\ typed.kind = "Data" THEN record(typed)
              ELSE ua
    IN UA_visit_all(<<node.value>>, u1, objs, symbol_table, file)

UA_visit_Name(node, ua, objs, symbol_table, file) ==
    LET data_element == Lookup(objs, symbol_table, Dot(module_name_of(file), <<node.id>>))
    IN IF ua.current_function # None /\ data_element.kind = "Data"
       THEN [ua EXCEPT !.accesses = Append(@, AccessRecord(ua.current_function,
                                                           data_element.unique_name))]
       ELSE ua

UA_visit(node, ua, objs, symbol_table, file) ==
    CASE node.t = "Import" -> UA_visit_Import(node, ua)
      [] node.t = "ImportFrom" -> UA_visit_ImportFrom(node, ua)
      [] node.t = "ClassDef" -> UA_visit_ClassDef(node, ua, objs, symbol_table, file)
      [] node.t = "FunctionDef" -> UA_visit_FunctionDef(node, ua, objs, symbol_table, file)
      [] node.t = "Assign" -> UA_visit_Assign(node, ua, objs, symbol_table, file)
      [] node.t = "Stmt" -> UA_visit_all(node.children, ua, objs, symbol_table, file)
      [] node.t = "Call" -> UA_visit_Call(node, ua, objs, symbol_table, file)
      [] node.t = "Attribute" -> UA_visit_Attribute(node, ua, objs, symbol_table, file)
      [] node.t = "Name" -> UA_visit_Name(node, ua, objs, symbol_table, file)
      [] OTHER -> ua

UA_visit_Module(file, ua, objs, symbol_table) ==
    UA_visit_all(file.body, ua, objs, symbol_table, file)

(***************************************************************************)
(* main                                                                    *)
(***************************************************************************)
max_iterations == 5

VARIABLES
    files,                      \* the .py files os.walk yields, in its order
    pc,                         \* where main is
    file_index,                 \* the file the current os.walk loop is at
    objs,                       \* the Element objects
    symbol_table, elements, parent_child_relations,
    param_type_assignments, iteration, changed,
    calls, accesses,            \* the lists of the current pass
    all_calls, all_accesses,
    id_mapping, all_elements,
    all_parent_child_relations, mapped_calls, mapped_accesses,
    output                      \* the records written to the .mse file

vars == <<files, pc, file_index, objs, symbol_table, elements, parent_child_relations,
          param_type_assignments, iteration, changed, calls, accesses,
          all_calls, all_accesses, id_mapping, all_elements,
          all_parent_child_relations, mapped_calls, mapped_accesses, output>>

NoOutput == [entities |-> <<>>, parent_child |-> <<>>, calls |-> <<>>, accesses |-> <<>>]

\* mutant of CollectFile: the collector visits a module node also for a file that
\* ast.parse rejects
CollectFile_Unguarded(file, collector) == DC_visit_Module(file, collector)

\* the try block of the first pass: ast.parse raises before the collector is created,
\* or the collector visits the tree
CollectFile(file, collector) ==
    IF file.parses THEN DC_visit_Module(file, collector) ELSE collector

\* first pass, one file of the os.walk loop
CollectDefinitions ==
    /\ pc = "collect"
    /\ file_index <= Len(files)
    /\ LET file == files[file_index]
           collector == DefinitionCollector(objs, symbol_table, elements,
                                            parent_child_relations)
           dc == CollectFile(file, collector)
       IN /\ objs' = dc.objs
          /\ symbol_table' = dc.symbol_table
          /\ elements' = dc.elements
          /\ parent_child_relations' = dc.parent_child_relations
    /\ file_index' = file_index + 1
    /\ UNCHANGED <<files, pc, param_type_assignments, iteration, changed, calls, accesses,
                   all_calls, all_accesses, id_mapping, all_elements,
                   all_parent_child_relations, mapped_calls, mapped_accesses, output>>

\* param_type_assignments = {unique_name: {} for ... if isinstance(elem, Code)}
InitialParamTypeAssignments(es, os) ==
    [u \in {es[i].key : i \in {j \in 1..Len(es) : os[es[j].ref].kind = "Code"}} |-> <<>>]

InitializeParameterTypes ==
    /\ pc = "collect"
    /\ file_index > Len(files)
    /\ param_type_assignments' = InitialParamTypeAssignments(elements, objs)
    /\ iteration' = 0
    /\ changed' = TRUE
    /\ pc' = "loop"
    /\ UNCHANGED <<files, file_index, objs, symbol_table, elements, parent_child_relations,
                   calls, accesses, all_calls, all_accesses, id_mapping, all_elements,
                   all_parent_child_relations, mapped_calls, mapped_accesses, output>>

\* mutant of LoopCondition: the ceiling is tested with <= and allows one more pass
LoopCondition_OneMore(chg, iter) == chg /\ iter <= max_iterations

\* while changed and iteration < max_iterations
LoopCondition(chg, iter) == chg /\ iter < max_iterations

StartIteration ==
    /\ pc = "loop"
    /\ LoopCondition(changed, iteration)
    /\ changed' = FALSE
    /\ calls' = <<>>
    /\ accesses' = <<>>
    /\ file_index' = 1
    /\ pc' = "analyze"
    /\ UNCHANGED <<files, objs, symbol_table, elements, parent_child_relations,
                   param_type_assignments, iteration, all_calls, all_accesses,
                   id_mapping, all_elements, all_parent_child_relations,
                   mapped_calls, mapped_accesses, output>>

\* the analysis of one file: the analyzer after visit(tree), or as the exception left it
AnalyzeFile(file, cs, as, pta, os, st) ==
    IF file.parses THEN UA_visit_Module(file, UsageAnalyzer(cs, as, pta), os, st)
    ELSE UsageAnalyzer(cs, as, pta)

AnalyzeUsage ==
    /\ pc = "analyze"
    /\ file_index <= Len(files)
    /\ LET ua == AnalyzeFile(files[file_index], calls, accesses, param_type_assignments,
                             objs, symbol_table)
       IN /\ calls' = ua.calls
          /\ accesses' = ua.accesses
          /\ param_type_assignments' = ua.param_type_assignments
    /\ file_index' = file_index + 1
    /\ UNCHANGED <<files, pc, objs, symbol_table, elements, parent_child_relations,
                   iteration, changed, all_calls, all_accesses, id_mapping, all_elements,
                   all_parent_child_relations, mapped_calls, mapped_accesses, output>>

\* func_element.parameters[param_name] = param_type for the entries that differ
RECURSIVE ApplyAssignments(_, _)
ApplyAssignments(parameters, params) ==
    IF params = <<>> THEN parameters
    ELSE LET e == Head(params)
         IN ApplyAssignments(IF ParametersGet(parameters, e.name) # e.type
                             THEN ParametersPut(parameters, e.name, e.type)
                             ELSE parameters,
                             Tail(params))

\* the objects after the apply step of the driver
ApplyParameterTypes(os, st, pta) ==
    [r \in 1..Len(os) |->
        IF os[r].kind = "Code" /\ os[r].unique_name \in DOMAIN pta
           /\ os[r].unique_name \in DOMAIN st /\ st[os[r].unique_name] = r
        THEN [os[r] EXCEPT !.parameters = ApplyAssignments(@, pta[os[r].unique_name])]
        ELSE os[r]]

\* mutant of ParameterTypesChanged: the apply step never sets changed
ParameterTypesChanged_Never(os, st, pta) == FALSE

\* changed = True when an entry of param_type_assignments differs from the parameter
ParameterTypesChanged(os, st, pta) == ApplyParameterTypes(os, st, pta) # os

ApplyAndAccumulate ==
    /\ pc = "analyze"
    /\ file_index > Len(files)
    /\ objs' = ApplyParameterTypes(objs, symbol_table, param_type_assignments)
    /\ changed' = IF ParameterTypesChanged(objs, symbol_table, param_type_assignments)
                  THEN TRUE ELSE changed
    /\ all_calls' = all_calls \o calls
    /\ all_accesses' = all_accesses \o accesses
    /\ iteration' = iteration + 1
    /\ pc' = "loop"
    /\ UNCHANGED <<files, file_index, symbol_table, elements, parent_child_relations,
                   param_type_assignments, calls, accesses, id_mapping, all_elements,
                   all_parent_child_relations, mapped_calls, mapped_accesses, output>>

\* elem.id = id_counter for the entities of elements, in insertion order
AssignElementIds(os, es) ==
    [r \in 1..Len(os) |->
        IF \E i \in 1..Len(es) : es[i].ref = r
        THEN [os[r] EXCEPT !.id = CHOOSE i \in 1..Len(es) : es[i].ref = r]
        ELSE os[r]]

AssignIDs ==
    /\ pc = "loop"
    /\ ~LoopCondition(changed, iteration)
    /\ objs' = AssignElementIds(objs, elements)
    /\ id_mapping' = [u \in {elements[i].key : i \in 1..Len(elements)} |->
                        CHOOSE i \in 1..Len(elements) : elements[i].key = u]
    /\ all_elements' = [i \in 1..Len(elements) |-> elements[i].ref]
    /\ pc' = "map"
    /\ UNCHANGED <<files, file_index, symbol_table, elements, parent_child_relations,
                   param_type_assignments, iteration, changed, calls, accesses,
                   all_calls, all_accesses, all_parent_child_relations,
                   mapped_calls, mapped_accesses, output>>

\* id_mapping.get(unique_name): None is 0, and no id is 0
IdOf(ids, unique_name) == Get(ids, unique_name, 0)

\* if parent_id and child_id: append the relation with the ids
MapParentChild(relations, ids) ==
    LET kept == SelectSeq(relations,
                          LAMBDA r : IdOf(ids, r.parent) # 0 /\ IdOf(ids, r.child) # 0)
    IN [i \in 1..Len(kept) |->
          [parent |-> IdOf(ids, kept[i].parent), child |-> IdOf(ids, kept[i].child),
           isMain |-> kept[i].isMain]]

\* mutant of MapCalls: a call is kept when one of its endpoints has an id
MapCalls_EitherEndpoint(cs, ids) ==
    LET kept == SelectSeq(cs, LAMBDA c : IdOf(ids, c.caller) # 0 \/ IdOf(ids, c.called) # 0)
    IN [i \in 1..Len(kept) |->
          [caller |-> IdOf(ids, kept[i].caller), called |-> IdOf(ids, kept[i].called)]]

MapCalls(cs, ids) ==
    LET kept == SelectSeq(cs, LAMBDA c : IdOf(ids, c.caller) # 0 /\ IdOf(ids, c.called) # 0)
    IN [i \in 1..Len(kept) |->
          [caller |-> IdOf(ids, kept[i].caller), called |-> IdOf(ids, kept[i].called)]]

MapAccesses(as, ids) ==
    LET kept == SelectSeq(as, LAMBDA a : IdOf(ids, a.accessor) # 0 /\ IdOf(ids, a.accessed) # 0)
    IN [i \in 1..Len(kept) |->
          [accessor |-> IdOf(ids, kept[i].accessor), accessed |-> IdOf(ids, kept[i].accessed),
           isWrite |-> kept[i].isWrite, isRead |-> kept[i].isRead,
           isDependent |-> kept[i].isDependent]]

MapRelations ==
    /\ pc = "map"
    /\ all_parent_child_relations' = MapParentChild(parent_child_relations, id_mapping)
    /\ mapped_calls' = MapCalls(all_calls, id_mapping)
    /\ mapped_accesses' = MapAccesses(all_accesses, id_mapping)
    /\ pc' = "write"
    /\ UNCHANGED <<files, file_index, objs, symbol_table, elements, parent_child_relations,
                   param_type_assignments, iteration, changed, calls, accesses,
                   all_calls, all_accesses, id_mapping, all_elements, output>>

\* the record of one entity in the .mse file
EntityRecord(elem) ==
    [type |-> elem.kind, id |-> elem.id, name |-> elem.name,
     uniqueName |-> elem.unique_name, technicalType |-> elem.technical_type,
     linkToEditor |-> elem.link_to_editor]

WriteOutput ==
    /\ pc = "write"
    /\ output' = [entities |-> [i \in 1..Len(all_elements) |->
                                   EntityRecord(objs[all_elements[i]])],
                  parent_child |-> all_parent_child_relations,
                  calls |-> mapped_calls,
                  accesses |-> mapped_accesses]
    /\ pc' = "done"
    /\ UNCHANGED <<files, file_index, objs, symbol_table, elements, parent_child_relations,
                   param_type_assignments, iteration, changed, calls, accesses,
                   all_calls, all_accesses, id_mapping, all_elements,
                   all_parent_child_relations, mapped_calls, mapped_accesses>>

(***************************************************************************)
(* The input programs: a library file a.py and a client file pkg/b.py,     *)
(* which os.walk yields in this order (the files of a directory before     *)
(* its subdirectories).  The client defines f, a function f(p, q) or a     *)
(* method C.f(self, p), whose body is any sequence of at most MaxBody      *)
(* statements of a pool; around it the client may call f with two          *)
(* instances, at module level before the definition or in a function s     *)
(* after it, or assign a variable named f after the definition.  Either    *)
(* file may fail to parse.                                                 *)
(***************************************************************************)
MaxBody == 2

ExprStmt(e) == Stmt(<<e>>)

\*  1 class K:
\*  2     def __init__(self):
\*  3         self.v = 0
\*  4     def m(self):
\*  5         return self.v
\*  6 class L:
\*  7     def m(self):
\*  8         pass
\*  9 N = 10
\* 10 def fn(t):
\* 11     t.m()
\* 12 def h(u):
\* 13     fn(u)
LibraryBody ==
    << ClassDef("K", << FunctionDef("__init__", <<"self">>,
                          << Assign(<<AttributeTarget(Name("self"), "v", 8)>>, Constant, 3) >>),
                        FunctionDef("m", <<"self">>,
                          << ExprStmt(Attribute(Name("self"), "v")) >>) >>),
       ClassDef("L", << FunctionDef("m", <<"self">>, << Stmt(<<>>) >>) >>),
       Assign(<<NameTarget("N", 0)>>, Constant, 9),
       FunctionDef("fn", <<"t">>, << ExprStmt(Call(Attribute(Name("t"), "m"), <<>>)) >>),
       FunctionDef("h", <<"u">>, << ExprStmt(Call(Name("fn"), <<Name("u")>>)) >>) >>

\* the statements a body of the function f(p, q) is drawn from, at line lineno
FunctionPool(lineno) ==
    << Assign(<<NameTarget("x", 4)>>, Call(Name("K"), <<>>), lineno),                   \* x = K()
       Assign(<<NameTarget("x", 4)>>, Call(Attribute(Name("a"), "L"), <<>>), lineno),   \* x = a.L()
       ExprStmt(Call(Attribute(Name("x"), "m"), <<>>)),                                \* x.m()
       ExprStmt(Call(Attribute(Name("p"), "m"), <<>>)),                                \* p.m()
       ExprStmt(Call(Name("f"), <<Name("q"), Name("p")>>)),                            \* f(q, p)
       ExprStmt(Call(Name("fn"), <<Name("x")>>)),                                      \* fn(x)
       ExprStmt(Call(Name("print"), <<Name("N")>>)),                                   \* print(N)
       Assign(<<NameTarget("N", 4)>>, Constant, lineno) >>                             \* N = 1

\* the statements a body of the method C.f(self, p) is drawn from
MethodPool(lineno) ==
    << Assign(<<AttributeTarget(Name("self"), "w", 8)>>, Call(Name("K"), <<>>), lineno),  \* self.w = K()
       Assign(<<AttributeTarget(Name("self"), "w", 8)>>,
              Call(Attribute(Name("a"), "L"), <<>>), lineno),                          \* self.w = a.L()
       ExprStmt(Call(Attribute(Attribute(Name("self"), "w"), "m"), <<>>)),             \* self.w.m()
       ExprStmt(Call(Attribute(Name("p"), "m"), <<>>)),                                \* p.m()
       ExprStmt(Call(Attribute(Name("C"), "f"), <<Name("p"), Name("self")>>)),         \* C.f(p, self)
       ExprStmt(Call(Name("fn"), <<Attribute(Name("self"), "w")>>)),                   \* fn(self.w)
       ExprStmt(Call(Name("print"), <<Attribute(Name("self"), "w")>>)),                \* print(self.w)
       ExprStmt(Call(Attribute(Name("self"), "g"), <<>>)) >>                           \* self.g()

PoolSize == Len(FunctionPool(0))

Bodies == UNION {[1..n -> 1..PoolSize] : n \in 0..MaxBody}

Places == {"function", "method"}
Contexts == {"plain", "seed_before", "caller_after", "shadow"}

\* f(a.K(), a.L()) or C.f(a.K(), a.L()) at module level
Seed(place) ==
    ExprStmt(Call(IF place = "function" THEN Name("f") ELSE Attribute(Name("C"), "f"),
                  << Call(Attribute(Name("a"), "K"), <<>>),
                     Call(Attribute(Name("a"), "L"), <<>>) >>))

\* import a / from a import K, L, fn / N = 0 / [seed] / the definition of f /
\* [f = 1] / [def s(): seed]
ClientBody(place, ctx, choice) ==
    LET first == IF place = "function" THEN 6 ELSE 9
        pool(k) == IF place = "function" THEN FunctionPool(first + k - 1)
                   ELSE MethodPool(first + k - 1)
        body == [k \in 1..Len(choice) |-> pool(k)[choice[k]]]
        shadow(col) == IF ctx = "shadow"
                       THEN << Assign(<<NameTarget("f", col)>>, Constant, first + Len(choice)) >>
                       ELSE <<>>
        definition ==
            IF place = "function"
            THEN << FunctionDef("f", <<"p", "q">>, body) >> \o shadow(0)
            ELSE << ClassDef("C",
                      << FunctionDef("g", <<"self">>,
                           << Assign(<<AttributeTarget(Name("self"), "w", 8)>>,
                                     Call(Attribute(Name("a"), "K"), <<>>), 7) >>),
                         FunctionDef("f", <<"self", "p">>, body) >> \o shadow(4)) >>
    IN << Import(<< alias(<<"a">>, None) >>),
          ImportFrom(<<"a">>, << alias(<<"K">>, None), alias(<<"L">>, None),
                                 alias(<<"fn">>, None) >>),
          Assign(<<NameTarget("N", 0)>>, Constant, 3) >>
       \o (IF ctx = "seed_before" THEN <<Seed(place)>> ELSE <<>>)
       \o definition
       \o (IF ctx = "caller_after" THEN << FunctionDef("s", <<>>, <<Seed(place)>>) >> ELSE <<>>)

Inputs ==
    {i \in [place : Places, ctx : Contexts, body : Bodies,
            lib_parses : BOOLEAN, client_parses : BOOLEAN] :
        ~i.client_parses => (i.place = "function" /\ i.ctx = "plain" /\ i.body = <<>>)}

SourceFiles(i) ==
    << SourceFile("a.py", <<"a">>, i.lib_parses, LibraryBody),
       SourceFile("b.py", <<"pkg", "b">>, i.client_parses,
                  ClientBody(i.place, i.ctx, i.body)) >>

(***************************************************************************)
(* The programs of the scenarios, next to the family above.                *)
(***************************************************************************)
\* the orders of three top-level definitions
Orders == {o \in [1..3 -> 1..3] : \A i, j \in 1..3 : o[i] = o[j] => i = j}

\* q.py, scenario D: a class K with a method m, f(obj) calling obj.m(), and g calling
\* f(K()), in one of the orders
\*   class K:
\*       def m(self): pass
\*   def f(obj): obj.m()
\*   def g(): f(K())
ScenarioD(order) ==
    LET defs == << ClassDef("K", << FunctionDef("m", <<"self">>, << Stmt(<<>>) >>) >>),
                   FunctionDef("f", <<"obj">>,
                       << ExprStmt(Call(Attribute(Name("obj"), "m"), <<>>)) >>),
                   FunctionDef("g", <<>>,
                       << ExprStmt(Call(Name("f"), << Call(Name("K"), <<>>) >>)) >>) >>
    IN << SourceFile("q.py", <<"q">>, TRUE, [k \in 1..3 |-> defs[order[k]]]) >>

\* a.py and pkg/b.py, scenario B: assignment-based receiver typing across files
\*   class K:                        from a import K, fn
\*       [def __init__(self): pass]  def h():
\*       def m(self): pass               x = K()
\*   def fn(): pass                      x.m()
\*                                       fn()
ScenarioB(has_init) ==
    << SourceFile("a.py", <<"a">>, TRUE,
         << ClassDef("K",
              (IF has_init THEN << FunctionDef("__init__", <<"self">>, << Stmt(<<>>) >>) >>
               ELSE <<>>)
              \o << FunctionDef("m", <<"self">>, << Stmt(<<>>) >>) >>),
            FunctionDef("fn", <<>>, << Stmt(<<>>) >>) >>),
       SourceFile("b.py", <<"pkg", "b">>, TRUE,
         << ImportFrom(<<"a">>, << alias(<<"K">>, None), alias(<<"fn">>, None) >>),
            FunctionDef("h", <<>>,
              << Assign(<<NameTarget("x", 4)>>, Call(Name("K"), <<>>), 3),
                 ExprStmt(Call(Attribute(Name("x"), "m"), <<>>)),
                 ExprStmt(Call(Name("fn"), <<>>)) >>) >>) >>

\* m.py, scenario A: a method calls a sibling method
\*   class C:
\*       def f(self): self.g()
\*       def g(self): pass
ScenarioA ==
    << SourceFile("m.py", <<"m">>, TRUE,
         << ClassDef("C",
              << FunctionDef("f", <<"self">>,
                   << ExprStmt(Call(Attribute(Name("self"), "g"), <<>>)) >>),
                 FunctionDef("g", <<"self">>, << Stmt(<<>>) >>) >>) >>) >>

\* a.py and pkg/s.py, scenario F: calls of built-ins, with and without definitions and
\* imports under the names of the built-ins
\*   class L:                 import a
\*       def m(self): pass    [from a import fn as len]
\*   def fn(t): t.m()         [class list:
\*   def fn2(t): pass              def __init__(self): pass]
\*                            [def print(t):
\*                                 t.m()]
\*                            def f():
\*                                x = a.L()
\*                                y = list()
\*                                print(x)
\*                                len(x)
\*                                print(len(x))
\*                                a.fn2(x)
ScenarioF(shadowed) ==
    LET call(name, arg) == Call(Name(name), <<arg>>)
        first == IF shadowed THEN 8 ELSE 3
    IN
    << SourceFile("a.py", <<"a">>, TRUE,
         << ClassDef("L", << FunctionDef("m", <<"self">>, << Stmt(<<>>) >>) >>),
            FunctionDef("fn", <<"t">>, << ExprStmt(Call(Attribute(Name("t"), "m"), <<>>)) >>),
            FunctionDef("fn2", <<"t">>, << Stmt(<<>>) >>) >>),
       SourceFile("s.py", <<"pkg", "s">>, TRUE,
         << Import(<< alias(<<"a">>, None) >>) >>
         \o (IF shadowed
             THEN << ImportFrom(<<"a">>, << alias(<<"fn">>, <<"len">>) >>),
                     ClassDef("list",
                        << FunctionDef("__init__", <<"self">>, << Stmt(<<>>) >>) >>),
                     FunctionDef("print", <<"t">>,
                        << ExprStmt(Call(Attribute(Name("t"), "m"), <<>>)) >>) >>
             ELSE <<>>)
         \o << FunctionDef("f", <<>>,
                 << Assign(<<NameTarget("x", 4)>>, Call(Attribute(Name("a"), "L"), <<>>),
                           first),
                    Assign(<<NameTarget("y", 4)>>, Call(Name("list"), <<>>), first + 1),
                    ExprStmt(call("print", Name("x"))),
                    ExprStmt(call("len", Name("x"))),
                    ExprStmt(call("print", call("len", Name("x")))),
                    ExprStmt(Call(Attribute(Name("a"), "fn2"), <<Name("x")>>)) >>) >>) >>

\* the calls that do not resolve to a Code: an unknown name, an instantiation, a callee
\* without a dotted name
UnresolvedKinds == {"unknown", "instantiation", "super"}

\* a.py and pkg/b.py, an unresolved call followed by resolved ones
\*   class K:                 from a import K, fn
\*       def m(self): pass    class C:
\*   def fn(): pass               def f(self):
\*                                    zz()  or  K()  or  super().__init__()
\*                                    fn()
\*                                def g(self):
\*                                    fn()
ScenarioU(kind) ==
    LET unresolved ==
            CASE kind = "unknown" -> Call(Name("zz"), <<>>)
              [] kind = "instantiation" -> Call(Name("K"), <<>>)
              [] kind = "super" ->
                    Call(Attribute(Call(Name("super"), <<>>), "__init__"), <<>>)
    IN
    << SourceFile("a.py", <<"a">>, TRUE,
         << ClassDef("K", << FunctionDef("m", <<"self">>, << Stmt(<<>>) >>) >>),
            FunctionDef("fn", <<>>, << Stmt(<<>>) >>) >>),
       SourceFile("b.py", <<"pkg", "b">>, TRUE,
         << ImportFrom(<<"a">>, << alias(<<"K">>, None), alias(<<"fn">>, None) >>),
            ClassDef("C",
              << FunctionDef("f", <<"self">>,
                   << ExprStmt(unresolved), ExprStmt(Call(Name("fn"), <<>>)) >>),
                 FunctionDef("g", <<"self">>,
                   << ExprStmt(Call(Name("fn"), <<>>)) >>) >>) >>) >>

\* a.py and pkg/b.py, a method called through a receiver and a plain function, each
\* with typed positional arguments
\*   class L:                 import a
\*       def m(self): pass    def f():
\*   class R:                     x = a.R()
\*       def m(self, t):          y = a.L()
\*           t.m()                x.m(y)
\*   def fn(s, t):                a.fn(x, y)
\*       t.m()
ScenarioR ==
    << SourceFile("a.py", <<"a">>, TRUE,
         << ClassDef("L", << FunctionDef("m", <<"self">>, << Stmt(<<>>) >>) >>),
            ClassDef("R",
              << FunctionDef("m", <<"self", "t">>,
                   << ExprStmt(Call(Attribute(Name("t"), "m"), <<>>)) >>) >>),
            FunctionDef("fn", <<"s", "t">>,
              << ExprStmt(Call(Attribute(Name("t"), "m"), <<>>)) >>) >>),
       SourceFile("b.py", <<"pkg", "b">>, TRUE,
         << Import(<< alias(<<"a">>, None) >>),
            FunctionDef("f", <<>>,
              << Assign(<<NameTarget("x", 4)>>, Call(Attribute(Name("a"), "R"), <<>>), 3),
                 Assign(<<NameTarget("y", 4)>>, Call(Attribute(Name("a"), "L"), <<>>), 4),
                 ExprStmt(Call(Attribute(Name("x"), "m"), <<Name("y")>>)),
                 ExprStmt(Call(Attribute(Name("a"), "fn"),
                               <<Name("x"), Name("y")>>)) >>) >>) >>

\* the files below base_path, in the order of os.walk
InputFiles ==
    {SourceFiles(i) : i \in Inputs}
    \cup {ScenarioD(o) : o \in Orders}
    \cup {ScenarioB(i) : i \in BOOLEAN}
    \cup {ScenarioA}
    \cup {ScenarioF(i) : i \in BOOLEAN}
    \cup {ScenarioU(k) : k \in UnresolvedKinds}
    \cup {ScenarioR}

Init ==
    /\ files \in InputFiles
    /\ pc = "collect"
    /\ file_index = 1
    /\ objs = <<>>
    /\ symbol_table = EmptyDict
    /\ elements = <<>>
    /\ parent_child_relations = <<>>
    /\ param_type_assignments = EmptyDict
    /\ iteration = 0
    /\ changed = TRUE
    /\ calls = <<>>
    /\ accesses = <<>>
    /\ all_calls = <<>>
    /\ all_accesses = <<>>
    /\ id_mapping = EmptyDict
    /\ all_elements = <<>>
    /\ all_parent_child_relations = <<>>
    /\ mapped_calls = <<>>
    /\ mapped_accesses = <<>>
    /\ output = NoOutput

Next ==
    \/ CollectDefinitions
    \/ InitializeParameterTypes
    \/ StartIteration
    \/ AnalyzeUsage
    \/ ApplyAndAccumulate
    \/ AssignIDs
    \/ MapRelations
    \/ WriteOutput

Spec == Init /\ [][Next]_vars

(***************************************************************************)
(* Properties                                                              *)
(***************************************************************************)
\* the while loop of the driver has been left
DriverStopped ==
    \/ pc = "loop" /\ ~LoopCondition(changed, iteration)
    \/ pc \in {"map", "write", "done"}

\* param_type_assignments after one more usage-analysis pass over files k..
RECURSIVE PassFrom(_, _, _, _)
PassFrom(k, cs, as, pta) ==
    IF k > Len(files) THEN pta
    ELSE LET ua == AnalyzeFile(files[k], cs, as, pta, objs, symbol_table)
         IN PassFrom(k + 1, ua.calls, ua.accesses, ua.param_type_assignments)

\* one more pass and apply step would change no parameters mapping
ParameterFixpoint ==
    LET after == ApplyParameterTypes(objs, symbol_table,
                                     PassFrom(1, <<>>, <<>>, param_type_assignments))
    IN \A r \in 1..Len(objs) : after[r].parameters = objs[r].parameters

CodeObjects == {r \in 1..Len(objs) : objs[r].kind = "Code"}

\* the steps of one iteration of the driver loop: its start, its files, its apply step
PassSteps == Len(files) + 2

\* an upper bound of the number of steps main still takes
StepsLeft ==
    CASE pc = "collect" -> (Len(files) + 1 - file_index) + 1 + max_iterations * PassSteps + 3
      [] pc = "loop" -> (max_iterations - iteration) * PassSteps + 3
      [] pc = "analyze" -> (max_iterations - iteration) * PassSteps - file_index + 3
      [] pc = "map" -> 2
      [] pc = "write" -> 1
      [] pc = "done" -> 0

\* C1: the driver loop always terminates: every step of main lowers a bound of the steps
\* left that never falls below 0, main is always at one of its steps (each of which has
\* a successor but the last), and when the output is written at least 1 and at most
\* max_iterations passes have run.
C1_DriverTerminates ==
    /\ [][StepsLeft' < StepsLeft]_vars
    /\ [](/\ pc \in {"collect", "loop", "analyze", "map", "write", "done"}
          /\ StepsLeft >= 0
          /\ pc = "done" => iteration \in 1..max_iterations)

\* C1 witness: a run that was stopped by the ceiling, its last apply step still changing
\* a parameter.
C1_Witness == pc = "done" /\ iteration = max_iterations /\ changed

C3_LastPassWins ==
    pc = "done" => /\ output.calls = MapCalls(calls, id_mapping)
                   /\ output.accesses = MapAccesses(accesses, id_mapping)

\* C4: a parameter type, in Code.parameters or in param_type_assignments, that is
\* bound to a class is never set back to None by a step of main.
C4_ParameterTypesMonotone ==
    [][ /\ \A r \in CodeObjects : \A i \in 1..Len(objs[r].parameters) :
              objs[r].parameters[i].type # None =>
                  ParametersGet(objs'[r].parameters, objs[r].parameters[i].name) # None
        /\ \A u \in DOMAIN param_type_assignments :
              \A i \in 1..Len(param_type_assignments[u]) :
                  param_type_assignments[u][i].type # None =>
                      /\ u \in DOMAIN param_type_assignments'
                      /\ ParametersGet(param_type_assignments'[u],
                                       param_type_assignments[u][i].name) # None ]_vars

\* C4 witness: a parameter bound to one class in an earlier pass is about to be rebound
\* to another class by the apply step.
C4_Witness ==
    /\ pc = "analyze" /\ file_index > Len(files) /\ iteration >= 1
    /\ \E r \in CodeObjects : \E i \in 1..Len(objs[r].parameters) :
          LET old == objs[r].parameters[i].type
              new == ParametersGet(Get(param_type_assignments, objs[r].unique_name, <<>>),
                                   objs[r].parameters[i].name)
          IN old # None /\ new # None /\ new # old

\* the entities of the output, as the readers of the file find them
EntityIds == {output.entities[i].id : i \in 1..Len(output.entities)}
EntityNames == {output.entities[i].uniqueName : i \in 1..Len(output.entities)}
EntityWithId(n) == output.entities[CHOOSE i \in 1..Len(output.entities) :
                                      output.entities[i].id = n]
IdOfName(u) == (CHOOSE i \in 1..Len(output.entities) : output.entities[i].uniqueName = u)

\* the recorded relations whose two endpoints are entities of the output
RelationsKept(relations, from(_), to(_)) ==
    SelectSeq(relations, LAMBDA r : from(r) \in EntityNames /\ to(r) \in EntityNames)

\* C5: every relation of the output refers by id to two entities of the output, and the
\* relations of the output are the recorded relations, in order, without exactly those
\* that have an endpoint that is no entity of the output.
C5_RelationsResolve ==
    pc = "done" =>
    LET pcs == RelationsKept(parent_child_relations, LAMBDA r : r.parent, LAMBDA r : r.child)
        cs == RelationsKept(all_calls, LAMBDA r : r.caller, LAMBDA r : r.called)
        as == RelationsKept(all_accesses, LAMBDA r : r.accessor, LAMBDA r : r.accessed)
        id(u) == output.entities[IdOfName(u)].id
    IN /\ \A i \in 1..Len(output.parent_child) :
             {output.parent_child[i].parent, output.parent_child[i].child} \subseteq EntityIds
       /\ \A i \in 1..Len(output.calls) :
             {output.calls[i].caller, output.calls[i].called} \subseteq EntityIds
       /\ \A i \in 1..Len(output.accesses) :
             {output.accesses[i].accessor, output.accesses[i].accessed} \subseteq EntityIds
       /\ Len(output.parent_child) = Len(pcs)
       /\ \A i \in 1..Len(pcs) :
             /\ output.parent_child[i].parent = id(pcs[i].parent)
             /\ output.parent_child[i].child = id(pcs[i].child)
       /\ Len(output.calls) = Len(cs)
       /\ \A i \in 1..Len(cs) :
             /\ output.calls[i].caller = id(cs[i].caller)
             /\ output.calls[i].called = id(cs[i].called)
       /\ Len(output.accesses) = Len(as)
       /\ \A i \in 1..Len(as) :
             /\ output.accesses[i].accessor = id(as[i].accessor)
             /\ output.accesses[i].accessed = id(as[i].accessed)

\* C5 witness: an output with Call records, written after a Call without enclosing
\* function and the ParentChild records of the modules were recorded and dropped.
C5_Witness ==
    /\ pc = "done" /\ Len(output.calls) > 0 /\ Len(output.accesses) > 0
    /\ \E i \in 1..Len(all_calls) : all_calls[i].caller = None
    /\ \E i \in 1..Len(parent_child_relations) : parent_child_relations[i].parent = None
    /\ Len(output.calls) < Len(all_calls)
    /\ Len(output.parent_child) < Len(parent_child_relations)

\* C6: every Call record of the output has a caller and a called that are Code entities
\* of the output.
C6_CallsBetweenCode ==
    pc = "done" =>
    \A i \in 1..Len(output.calls) :
        /\ EntityWithId(output.calls[i].caller).type = "Code"
        /\ EntityWithId(output.calls[i].called).type = "Code"

\* C7: every Access record of the output has an accessor that is a Code entity and an
\* accessed that is a Data entity of the output.
C7_AccessesFromCodeToData ==
    pc = "done" =>
    \A i \in 1..Len(output.accesses) :
        /\ EntityWithId(output.accesses[i].accessor).type = "Code"
        /\ EntityWithId(output.accesses[i].accessed).type = "Data"

\* C8: no two entity records of the output carry the same uniqueName.
C8_UniqueNamesUnique ==
    pc = "done" =>
    \A i, j \in 1..Len(output.entities) :
        output.entities[i].uniqueName = output.entities[j].uniqueName => i = j

\* C8 witness: an output written after some definition computed a uniqueName that
\* already had an entity (more objects were created than the output has entities).
C8_Witness == pc = "done" /\ Len(output.entities) > 0 /\ Len(objs) > Len(output.entities)

\* the (name, parameter names) of the function definitions of a body
RECURSIVE DeclaredFunctions(_)
DeclaredFunctions(body) ==
    IF body = <<>> THEN {}
    ELSE LET node == Head(body)
         IN (CASE node.t = "FunctionDef" ->
                     {<<node.name, node.args>>} \cup DeclaredFunctions(node.body)
               [] node.t = "ClassDef" -> DeclaredFunctions(node.body)
               [] OTHER -> {})
            \cup DeclaredFunctions(Tail(body))

ParameterNames(parameters) == [i \in 1..Len(parameters) |-> parameters[i].name]

\* C9: from the end of definition collection on, the keys of the parameters of every
\* Code are the parameters its definition declares, in declaration order.
C9_ParameterKeysDeclared ==
    pc # "collect" =>
    \A r \in CodeObjects :
        \E k \in 1..Len(files) :
            <<objs[r].name, ParameterNames(objs[r].parameters)>>
                \in DeclaredFunctions(files[k].body)

\* C9 witness: after an apply step wrote a type into the parameters of a Code with more
\* than one parameter.
C9_Witness ==
    /\ pc = "loop" /\ iteration >= 1
    /\ \E r \in CodeObjects :
          /\ Len(objs[r].parameters) >= 2
          /\ \A i \in 1..Len(objs[r].parameters) : objs[r].parameters[i].type # None

\* the type of a parameter of the Code the symbol table holds under a uniqueName
ParameterType(unique_name, param_name) ==
    ParametersGet(Lookup(objs, symbol_table, unique_name).parameters, param_name)

\* a list of recorded calls holds the call caller -> called
HasCall(cs, caller, called) == \E i \in 1..Len(cs) : cs[i] = CallRecord(caller, called)

\* the output holds a Call record between the entities with these uniqueNames
OutputHasCall(caller, called) ==
    \E i \in 1..Len(output.calls) :
        /\ EntityWithId(output.calls[i].caller).uniqueName = caller
        /\ EntityWithId(output.calls[i].called).uniqueName = called

\* the files of a pass have all been analyzed, the apply step has not run yet
PassAnalyzed(n) == pc = "analyze" /\ iteration = n - 1 /\ file_index > Len(files)

\* C11: scenario D, in every order of the definitions of K, f and g: in pass 1 obj is
\* unknown, obj.m() is unresolved and Call(g, f) is recorded; the apply step of pass 1
\* binds f.obj to K; pass 2 resolves obj.m() to K.m; the output holds Call(f, K.m) and
\* Call(g, f).
C11_ScenarioD ==
    (\E o \in Orders : files = ScenarioD(o)) =>
    LET f == <<"q", "f">>
        g == <<"q", "g">>
        K == <<"q", "K">>
    IN /\ PassAnalyzed(1) => /\ ParameterType(f, "obj") = None
                             /\ ~HasCall(calls, f, Dot(K, <<"m">>))
                             /\ HasCall(calls, g, f)
       /\ (pc = "loop" /\ iteration = 1) => ParameterType(f, "obj") = K
       /\ PassAnalyzed(2) => HasCall(calls, f, Dot(K, <<"m">>))
       /\ pc = "done" => /\ OutputHasCall(f, Dot(K, <<"m">>))
                         /\ OutputHasCall(g, f)

\* C12: scenario B, with and without an __init__ in a.K: after x = K() with K imported
\* by 'from a import K', the later x.m() gives Call(h, a.K.m) and the later call of the
\* imported fn gives Call(h, a.fn) in the output; Call(h, a.K.__init__) is in the output
\* if and only if a.K defines __init__.
C12_AssignmentTyping ==
    \A has_init \in BOOLEAN :
        (files = ScenarioB(has_init) /\ pc = "done") =>
            /\ OutputHasCall(<<"pkg", "b", "h">>, <<"a", "K", "m">>)
            /\ OutputHasCall(<<"pkg", "b", "h">>, <<"a", "fn">>)
            /\ OutputHasCall(<<"pkg", "b", "h">>, <<"a", "K", "__init__">>) <=> has_init

\* C13: a method f of a class C that holds the call self.g(), C defining g, gives
\* Call(C.f, C.g) in the output: in scenario A, where g is defined after f, and in the
\* method bodies of the family that begin with self.g(), where g is defined before f.
C13_SiblingMethodCall ==
    pc = "done" =>
        /\ files = ScenarioA => OutputHasCall(<<"m", "C", "f">>, <<"m", "C", "g">>)
        /\ \A i \in Inputs :
              (/\ files = SourceFiles(i)
               /\ i.place = "method" /\ i.ctx = "plain" /\ i.client_parses
               /\ i.body # <<>>
               /\ MethodPool(0)[i.body[1]] = ExprStmt(Call(Attribute(Name("self"), "g"), <<>>)))
              => OutputHasCall(<<"pkg", "b", "C", "f">>, <<"pkg", "b", "C", "g">>)

\* C14: the calls print(..), len(..) and list() of scenario F never produce a Call
\* record and never update param_type_assignments, in any pass, also when the module
\* defines a function print and a class list and imports a function under the name
\* len: no recorded or emitted call has pkg.s.print, pkg.s.list.__init__ or a.fn as its
\* called, and param_type_assignments holds no entry for a parameter of the three.
C14_BuiltinsIgnored ==
    \A shadowed \in BOOLEAN :
        files = ScenarioF(shadowed) =>
        LET ignored == {<<"pkg", "s", "print">>, <<"pkg", "s", "list", "__init__">>,
                        <<"a", "fn">>}
        IN
        /\ \A i \in 1..Len(calls) : calls[i].called \notin ignored
        /\ \A i \in 1..Len(all_calls) : all_calls[i].called \notin ignored
        /\ \A u \in ignored : u \in DOMAIN param_type_assignments =>
                                  param_type_assignments[u] = <<>>
        /\ pc = "done" =>
              \A i \in 1..Len(output.calls) :
                  EntityWithId(output.calls[i].called).uniqueName \notin ignored

\* C15: an unresolved call (an unknown name, an instantiation K(), super().__init__())
\* adds no Call record, raises no error and lets the analyzer go on: at the end of
\* every pass over its file the recorded calls are those of the statements that follow
\* it, Call(C.f, a.fn) and Call(C.g, a.fn), and nothing else.
C15_UnresolvedCallsDropped ==
    \A kind \in UnresolvedKinds :
        (files = ScenarioU(kind) /\ pc = "analyze" /\ file_index > Len(files)) =>
            calls = << CallRecord(<<"pkg", "b", "C", "f">>, <<"a", "fn">>),
                       CallRecord(<<"pkg", "b", "C", "g">>, <<"a", "fn">>) >>

\* the uniqueName belongs to a module: it is the module name or continues it
InModule(module_name, unique_name) ==
    /\ Len(unique_name) >= Len(module_name)
    /\ SubSeq(unique_name, 1, Len(module_name)) = module_name

\* a list of recorded accesses holds the access accessor -> accessed
HasAccess(as, accessor, accessed) ==
    \E i \in 1..Len(as) : as[i] = AccessRecord(accessor, accessed)

\* C16: a file that fails to parse contributes no entity, no symbol-table entry and no
\* relation in either phase; every other file is still processed in both phases (its
\* module is collected, each pass records the accesses of its functions) and its
\* entities are in the output that is written.
C16_ParseFailureSkipped ==
    \A k \in 1..Len(files) :
        LET m == module_name_of(files[k])
            foreign(u) == ~InModule(m, u)
        IN
        /\ ~files[k].parses =>
              /\ \A r \in 1..Len(objs) : foreign(objs[r].unique_name)
              /\ \A u \in DOMAIN symbol_table : foreign(u)
              /\ \A i \in 1..Len(elements) : foreign(elements[i].key)
              /\ \A u \in DOMAIN param_type_assignments : foreign(u)
              /\ \A i \in 1..Len(parent_child_relations) :
                    /\ foreign(parent_child_relations[i].parent)
                    /\ foreign(parent_child_relations[i].child)
              /\ \A i \in 1..Len(calls) : foreign(calls[i].caller) /\ foreign(calls[i].called)
              /\ \A i \in 1..Len(all_calls) :
                    foreign(all_calls[i].caller) /\ foreign(all_calls[i].called)
              /\ \A i \in 1..Len(accesses) :
                    foreign(accesses[i].accessor) /\ foreign(accesses[i].accessed)
              /\ \A i \in 1..Len(all_accesses) :
                    foreign(all_accesses[i].accessor) /\ foreign(all_accesses[i].accessed)
              /\ \A i \in 1..Len(output.entities) : foreign(output.entities[i].uniqueName)
        /\ (files[k].parses /\ \E j \in 1..Len(files) : ~files[j].parses) =>
              /\ pc # "collect" => Lookup(objs, symbol_table, m).kind = "Grouping"
              /\ (pc = "analyze" /\ file_index > Len(files) /\ m = <<"a">>) =>
                    HasAccess(accesses, <<"a", "K", "m">>, <<"a", "K", "v">>)
              /\ (/\ pc = "analyze" /\ file_index > Len(files)
                  /\ \E d \in 1..Len(files[k].body) :
                        LET node == files[k].body[d] IN
                        /\ node.t = "FunctionDef" /\ node.body # <<>>
                        /\ node.body[1] = ExprStmt(Call(Name("print"), <<Name("N")>>))) =>
                    HasAccess(accesses, Dot(m, <<"f">>), Dot(m, <<"N">>))
              /\ pc = "done" => m \in EntityNames

\* C16 witness: the output written for a library that failed to parse and a client
\* that parsed and whose accesses are in the output.
C16_Witness ==
    /\ pc = "done" /\ Len(files) = 2 /\ ~files[1].parses /\ files[2].parses
    /\ <<"pkg", "b">> \in EntityNames
    /\ Len(output.accesses) > 0

\* the ParentChild records of the output that have the entity as their child
ParentRecords(entity) ==
    {i \in 1..Len(output.parent_child) : output.parent_child[i].child = entity.id}

\* C17: in the output no module entity is the child of a ParentChild record, and every
\* other entity is the child of exactly one ParentChild record.
C17_StructuralParents ==
    pc = "done" =>
    \A e \in 1..Len(output.entities) :
        LET entity == output.entities[e] IN
        IF entity.technicalType = "PythonFile"
        THEN ParentRecords(entity) = {}
        ELSE Cardinality(ParentRecords(entity)) = 1

\* the first object created for a uniqueName
FirstCreated(unique_name) ==
    CHOOSE r \in 1..Len(objs) :
        /\ objs[r].unique_name = unique_name
        /\ \A q \in 1..(r - 1) : objs[q].unique_name # unique_name

\* C18: after phase 1 the entity stored under each uniqueName, in elements and in the
\* symbol table, is the first one created for it: a later definition or assignment
\* with the same uniqueName keeps the existing entity, its kind and its editor link.
C18_EntitiesReused ==
    pc # "collect" =>
        /\ \A i \in 1..Len(elements) : elements[i].ref = FirstCreated(elements[i].key)
        /\ \A u \in DOMAIN symbol_table : symbol_table[u] = FirstCreated(u)

\* the type recorded in param_type_assignments for a parameter of a Code
AssignedType(unique_name, param_name) ==
    ParametersGet(Get(param_type_assignments, unique_name, <<>>), param_name)

\* C19: when the files of pass 1 are analyzed, the positional arguments of the resolved
\* calls x.m(y) and a.fn(x, y), with x an a.R and y an a.L, are recorded for the
\* corresponding parameters: s and t of the plain function a.fn get a.R and a.L; of the
\* method a.R.m, called through the receiver x, the parameter t after self gets a.L and
\* self gets no type from the explicit argument.
C19_ArgumentsToParameters ==
    (files = ScenarioR /\ PassAnalyzed(1)) =>
        /\ AssignedType(<<"a", "fn">>, "s") = <<"a", "R">>
        /\ AssignedType(<<"a", "fn">>, "t") = <<"a", "L">>
        /\ AssignedType(<<"a", "R", "m">>, "t") = <<"a", "L">>
        /\ AssignedType(<<"a", "R", "m">>, "self") = None

\* the parameters mapping of every Code
CodeParameters ==
    [r \in {q \in 1..Len(objs) : objs[q].kind = "Code"} |-> objs[r].parameters]

\* inputs of the family with the function f(p, q), whose only caller passes an a.K for p
FunctionInputs == {SourceFiles(i) : i \in {j \in Inputs : j.place = "function"}}

\* C20: after phase 1, a step that changes the parameters mapping of a Code is the apply
\* step of the driver, taken when every file of the pass has been visited; a step of the
\* usage analysis over a file leaves every parameters mapping as it is. So a type proposed
\* at a call site is not seen by the body of the callee in the same pass, whatever the
\* order of files and definitions: a call that a body resolves through a parameter is
\* recorded only while Code.parameters, written by an earlier apply step, holds the type
\* (p.m() in f for an a.K passed to f, t.m() in a.fn for an a.L passed to a.fn).
C20_ParametersWrittenBetweenPasses ==
    /\ [][ (pc # "collect" /\ CodeParameters' # CodeParameters) =>
              (pc = "analyze" /\ file_index > Len(files) /\ pc' = "loop"
               /\ iteration' = iteration + 1) ]_vars
    /\ [](pc = "analyze" =>
            /\ (files \in FunctionInputs
                /\ HasCall(calls, <<"pkg", "b", "f">>, <<"a", "K", "m">>))
                   => ParameterType(<<"pkg", "b", "f">>, "p") = <<"a", "K">>
            /\ (files = ScenarioR
                /\ HasCall(calls, <<"a", "fn">>, <<"a", "L", "m">>))
                   => ParameterType(<<"a", "fn">>, "t") = <<"a", "L">>)

\* pass 1 is analyzed over an input where the call f(a.K(), a.L()) precedes the
\* definition of f in the file and the body of f calls p.m(): the type a.K is proposed
\* for p, the parameters of f hold no type yet, and no call of a.K.m is recorded
C20_Witness ==
    /\ PassAnalyzed(1)
    /\ AssignedType(<<"pkg", "b", "f">>, "p") = <<"a", "K">>
    /\ ParameterType(<<"pkg", "b", "f">>, "p") = None
    /\ ~HasCall(calls, <<"pkg", "b", "f">>, <<"a", "K", "m">>)
    /\ \E i \in Inputs : /\ i.place = "function" /\ i.ctx = "seed_before"
                         /\ \E k \in 1..Len(i.body) : i.body[k] = 4
                         /\ files = SourceFiles(i)

(***************************************************************************)
(* main as a function of the files: the relations of the output of a run   *)
(* over other files than those of the state, from the operators the steps  *)
(* of main apply.                                                          *)
(***************************************************************************)
\* the first pass over the files k.. : a new DefinitionCollector per file
RECURSIVE CollectAll(_, _, _, _, _, _)
CollectAll(fs, k, os, st, es, pcr) ==
    IF k > Len(fs)
    THEN [objs |-> os, symbol_table |-> st, elements |-> es, parent_child_relations |-> pcr]
    ELSE LET dc == CollectFile(fs[k], DefinitionCollector(os, st, es, pcr))
         IN CollectAll(fs, k + 1, dc.objs, dc.symbol_table, dc.elements,
                       dc.parent_child_relations)

\* one usage-analysis pass over the files k.. : a new UsageAnalyzer per file
RECURSIVE AnalyzeAll(_, _, _, _, _, _, _)
AnalyzeAll(fs, k, cs, as, pta, os, st) ==
    IF k > Len(fs) THEN [calls |-> cs, accesses |-> as, param_type_assignments |-> pta]
    ELSE LET ua == AnalyzeFile(fs[k], cs, as, pta, os, st)
         IN AnalyzeAll(fs, k + 1, ua.calls, ua.accesses, ua.param_type_assignments, os, st)

\* the while loop of main: all_calls and all_accesses when it is left
RECURSIVE Drive(_, _, _, _, _, _, _, _)
Drive(fs, os, st, pta, iter, chg, acs, aas) ==
    IF LoopCondition(chg, iter)
    THEN LET ua == AnalyzeAll(fs, 1, <<>>, <<>>, pta, os, st)
         IN Drive(fs, ApplyParameterTypes(os, st, ua.param_type_assignments), st,
                  ua.param_type_assignments, iter + 1,
                  ParameterTypesChanged(os, st, ua.param_type_assignments),
                  acs \o ua.calls, aas \o ua.accesses)
    ELSE [all_calls |-> acs, all_accesses |-> aas]

\* the Call and Access relations main writes for the files, by uniqueNames
MainRelations(fs) ==
    LET dc == CollectAll(fs, 1, <<>>, EmptyDict, <<>>, <<>>)
        names == {dc.elements[i].key : i \in 1..Len(dc.elements)}
        all == Drive(fs, dc.objs, dc.symbol_table,
                     InitialParamTypeAssignments(dc.elements, dc.objs), 0, TRUE, <<>>, <<>>)
    IN [calls |-> {<<all.all_calls[i].caller, all.all_calls[i].called>> :
                      i \in {j \in 1..Len(all.all_calls) :
                               /\ all.all_calls[j].caller \in names
                               /\ all.all_calls[j].called \in names}},
        accesses |-> {<<all.all_accesses[i].accessor, all.all_accesses[i].accessed>> :
                      i \in {j \in 1..Len(all.all_accesses) :
                               /\ all.all_accesses[j].accessor \in names
                               /\ all.all_accesses[j].accessed \in names}}]

\* the Call and Access relations of the output, by uniqueNames
OutputRelations ==
    [calls |-> {<<EntityWithId(output.calls[i].caller).uniqueName,
                  EntityWithId(output.calls[i].called).uniqueName>> :
                    i \in 1..Len(output.calls)},
     accesses |-> {<<EntityWithId(output.accesses[i].accessor).uniqueName,
                     EntityWithId(output.accesses[i].accessed).uniqueName>> :
                    i \in 1..Len(output.accesses)}]

Reverse(seq) == [k \in 1..Len(seq) |-> seq[Len(seq) + 1 - k]]

\* C21: the Call and Access relations of the output are those of the output for the
\* program with the statements of the body of f in the opposite order.
C21_FlowInsensitive ==
    pc = "done" =>
        \A i \in Inputs :
            files = SourceFiles(i) =>
                OutputRelations = MainRelations(SourceFiles([i EXCEPT !.body = Reverse(@)]))

\* the flags of an Access record are isRead = true, isWrite = false, isDependent = true
ReadAccess(a) == a.isRead /\ ~a.isWrite /\ a.isDependent

C23_AssignmentTargetNoAccess ==
    (\/ HasAccess(accesses, <<"pkg", "b", "f">>, <<"pkg", "b", "N">>)
     \/ HasAccess(all_accesses, <<"pkg", "b", "f">>, <<"pkg", "b", "N">>))
        => \E i \in Inputs : /\ \E k \in 1..Len(i.body) : i.body[k] = 7
                             /\ files = SourceFiles(i)

\* the records of the Definition Collector that get ids for both ends
WrittenParentChild ==
    SelectSeq(parent_child_relations,
              LAMBDA r : r.parent \in DOMAIN id_mapping /\ r.child \in DOMAIN id_mapping)

TokenChars(b) == IF b THEN <<"t", "r", "u", "e">> ELSE <<"f", "a", "l", "s", "e">>

\* (SOMIX.Grouping (id: 1 ) (name 'x') ...) gives the tokens 'id:' and '1' in a list
EntityEntry(e) ==
    [type |-> <<"SOMIX", e.type>>,
     attrs |-> << <<"id:", e.id>>, <<"name", e.name>>, <<"uniqueName", e.uniqueName>>,
                  <<"technicalType", e.technicalType>> >>
               \o (IF e.linkToEditor # None THEN << <<"linkToEditor", e.linkToEditor>> >>
                   ELSE <<>>)]

ParentChildEntry(r) ==
    [type |-> <<"SOMIX", "ParentChild">>,
     attrs |-> << <<"parent", <<"ref:", r.parent>> >>, <<"child", <<"ref:", r.child>> >>,
                  <<"isMain", TokenChars(r.isMain)>> >>]

CallEntry(c) ==
    [type |-> <<"SOMIX", "Call">>,
     attrs |-> << <<"caller", <<"ref:", c.caller>> >>, <<"called", <<"ref:", c.called>> >> >>]

AccessEntry(a) ==
    [type |-> <<"SOMIX", "Access">>,
     attrs |-> << <<"accessor", <<"ref:", a.accessor>> >>,
                  <<"accessed", <<"ref:", a.accessed>> >>,
                  <<"isWrite", TokenChars(a.isWrite)>>, <<"isRead", TokenChars(a.isRead)>>,
                  <<"isDependent", TokenChars(a.isDependent)>> >>]

\* extract_entries(parse_mse_content(content)) for the content of the .mse file
extract_entries(out) ==
    [i \in 1..Len(out.entities) |-> EntityEntry(out.entities[i])]
    \o [i \in 1..Len(out.parent_child) |-> ParentChildEntry(out.parent_child[i])]
    \o [i \in 1..Len(out.calls) |-> CallEntry(out.calls[i])]
    \o [i \in 1..Len(out.accesses) |-> AccessEntry(out.accesses[i])]

EntityTypes == {<<"SOMIX", "Grouping">>, <<"SOMIX", "Code">>, <<"SOMIX", "Data">>}
RelationTypes == {<<"SOMIX", "ParentChild">>, <<"SOMIX", "Call">>, <<"SOMIX", "Access">>}

\* the parts of the uniqueNames of the inputs, in the order of Python's string comparison
PartsInOrder ==
    << "C", "K", "L", "N", "R", "__init__", "a", "b", "f", "fn", "fn2", "g", "h", "list",
       "m", "pkg", "print", "q", "s", "v", "w", "x", "y" >>

PartRank(part) == CHOOSE i \in 1..Len(PartsInOrder) : PartsInOrder[i] = part

\* u < v on dotted strings: '.' sorts before every character of a part
RECURSIVE NameLess(_, _)
NameLess(u, v) ==
    IF v = <<>> THEN FALSE
    ELSE IF u = <<>> THEN TRUE
    ELSE IF Head(u) = Head(v) THEN NameLess(Tail(u), Tail(v))
    ELSE PartRank(Head(u)) < PartRank(Head(v))

\* the value of the attribute with the key, "" when the entry has none
AttributeOf(entry, key) ==
    IF \E i \in 1..Len(entry.attrs) : entry.attrs[i][1] = key
    THEN entry.attrs[CHOOSE i \in 1..Len(entry.attrs) :
                        /\ entry.attrs[i][1] = key
                        /\ \A j \in 1..(i - 1) : entry.attrs[j][1] # key][2]
    ELSE ""

\* id_map[str(idx)] = unique_name over the sorted uniqueNames; the entities without
\* the attributes whose key is 'id'
normalize_ids(entries) ==
    LET unique_names == {AttributeOf(entries[i], "uniqueName") :
                            i \in {j \in 1..Len(entries) : entries[j].type \in EntityTypes}}
        id_map == [idx \in 1..Cardinality(unique_names) |->
                     CHOOSE u \in unique_names :
                        Cardinality({v \in unique_names : NameLess(v, u)}) = idx - 1]
        without_id(entry) ==
            [entry EXCEPT !.attrs = SelectSeq(@, LAMBDA attr : attr[1] # "id")]
    IN [entries |-> [i \in 1..Len(entries) |->
                       IF entries[i].type \in EntityTypes THEN without_id(entries[i])
                       ELSE entries[i]],
        id_map |-> id_map]

\* attrs[key] = value for the attributes in order
DictOf(pairs) ==
    [k \in {pairs[i][1] : i \in 1..Len(pairs)} |->
        pairs[CHOOSE i \in 1..Len(pairs) :
                 /\ pairs[i][1] = k
                 /\ \A j \in (i + 1)..Len(pairs) : pairs[j][1] # k][2]]

\* attr[1][0].startswith("(ref:"): tokenize puts no parenthesis inside a token
StartsWithOpenRef(token) == token = "(ref:"

\* the value replace_refs stores for an attribute of a relation
RelationValue(attr, id_map) ==
    IF StartsWithOpenRef(attr[2][1])
    THEN Get(id_map, attr[2][2], <<"ValueError">>)
    ELSE attr[2][2]

\* the formatted entries: the type and the attributes by key, the key 'id' removed
replace_refs(entries, id_map) ==
    LET formatted(entry) ==
            IF entry.type \in EntityTypes
            THEN LET attrs == DictOf(entry.attrs)
                 IN [type |-> entry.type,
                     attrs |-> [k \in DOMAIN attrs \ {"id"} |-> attrs[k]]]
            ELSE [type |-> entry.type,
                  attrs |-> DictOf([i \in 1..Len(entry.attrs) |->
                                      <<entry.attrs[i][1],
                                        RelationValue(entry.attrs[i], id_map)>>])]
    IN [i \in 1..Len(entries) |-> formatted(entries[i])]

\* the formatted entries of a file; the sorted list is compared as a set
parse_mse_file(out) ==
    LET normalized == normalize_ids(extract_entries(out))
        formatted_entries == replace_refs(normalized.entries, normalized.id_map)
    IN {formatted_entries[i] : i \in 1..Len(formatted_entries)}

\* are_identical
compare_mse_files(out1, out2) == parse_mse_file(out1) = parse_mse_file(out2)

\* the output with the id n of every entity, and every reference to n, turned into
\* the id k places further, cyclically
Renumbered(out, k) ==
    LET n == Len(out.entities)
        id(m) == ((m - 1 + k) % n) + 1
    IN [entities |-> [i \in 1..n |-> [out.entities[i] EXCEPT !.id = id(@)]],
        parent_child |-> [i \in 1..Len(out.parent_child) |->
                            [out.parent_child[i] EXCEPT !.parent = id(@), !.child = id(@)]],
        calls |-> [i \in 1..Len(out.calls) |->
                     [out.calls[i] EXCEPT !.caller = id(@), !.called = id(@)]],
        accesses |-> [i \in 1..Len(out.accesses) |->
                        [out.accesses[i] EXCEPT !.accessor = id(@), !.accessed = id(@)]]]

\* C25: the .mse file of the output and the file that differs from it only in the ids
\* of the entities, renumbered cyclically, are reported as identical by
\* compare_mse_files.
C25_OracleIgnoresIds ==
    pc = "done" =>
        \A k \in 0..(Len(output.entities) - 1) :
            compare_mse_files(output, Renumbered(output, k))


====
